---- MODULE Spec2Model ----
(***************************************************************************)
(* The codex compiler of tools/compile_codex.py as a state machine.        *)
(*                                                                         *)
(* A run of main() is one pass: collect_nodes() walks the loose node files *)
(* in sorted path order, then the blocks of the two ledgers, then the card *)
(* files, the tokens file and the cosmology file; main() then writes the   *)
(* artifacts.  Every loop iteration of the source is one action.  The      *)
(* source tree is read-only during a run, so the content of a file is      *)
(* drawn when the run reaches it.                                          *)
(*                                                                         *)
(* A Python dict is a function with a finite domain of strings; a JSON     *)
(* string that the code inspects (the id) is a sequence of characters.     *)
(***************************************************************************)
EXTENDS Integers, Sequences, FiniteSets, TLC

(* ------------------------------ bounds -------------------------------- *)
\* size of the source tree: node files, ledger blocks and card files together
MaxInputs == 3
\* the clock reads 0..MaxClock
MaxClock == 1

(* -------------------------- python dict helpers ------------------------ *)
\* d.get(k, default)
Get(d, k, default) == IF k \in DOMAIN d THEN d[k] ELSE default

\* d[k] = v
Put(d, k, v) == [x \in (DOMAIN d) \cup {k} |-> IF x = k THEN v ELSE d[x]]

\* d.setdefault(k, v), the dict afterwards
SetDefault(d, k, v) == IF k \in DOMAIN d THEN d ELSE Put(d, k, v)

\* d.pop(k, None), the dict afterwards
Pop(d, k) == [x \in (DOMAIN d) \ {k} |-> d[x]]

(* ----------------------------- JSON values ----------------------------- *)
\* a JSON string whose characters the code looks at
JStr(chars) == [str |-> chars]
\* a JSON number
JNum(n) == [num |-> n]
\* Python None, what dict.get returns for a missing key
None == [none |-> TRUE]

IsStr(v) == "str" \in DOMAIN v

\* a JSON true or false
JBool(b) == [bool |-> b]

\* (variant: "if node_id is None" in place of "if not node_id")
Truthy_not_none(v) == v # None
\* Python truthiness of an id value
Truthy(v) ==
    IF "str" \in DOMAIN v THEN Len(v.str) > 0
    ELSE IF "num" \in DOMAIN v THEN v.num # 0
    ELSE IF "bool" \in DOMAIN v THEN v.bool
    ELSE FALSE

ID_001 == JStr(<<"C", "1", "4", "4", "N", "-", "0", "0", "1">>)
ID_ARCANA == JStr(<<"C", "1", "4", "4", "N", "-", "A", "R", "C", "A", "N", "A", "-", "A", "_">>)
ID_BAD == JStr(<<"b", "a", "d", "-", "i", "d">>)
ID_4DIGITS == JStr(<<"C", "1", "4", "4", "N", "-", "0", "0", "1", "2">>)
ID_EMPTY == JStr(<< >>)

Titles == {"Alpha", "Beta"}

\* the id values a fragment may carry
IdValues ==
    {ID_001, ID_ARCANA, ID_BAD, ID_4DIGITS, ID_EMPTY, JNum(0), JNum(7), JBool(FALSE), None}

\* the objects a node file or a ledger block may hold: with or without an id
Fragments ==
    [id : IdValues, title : Titles] \cup [title : Titles]

\* what load_json returns for a node file: None, an object, or an array of n items
LoadResults ==
    {[t |-> "null"], [t |-> "object", v |-> << >>], [t |-> "array", n |-> 0], [t |-> "array", n |-> 1]}
        \cup {[t |-> "object", v |-> f] : f \in Fragments}

\* "not data"
Falsy(value) ==
    \/ value.t = "null"
    \/ value.t = "object" /\ DOMAIN value.v = {}
    \/ value.t = "array" /\ value.n = 0

(* --------------------------- schema validation ------------------------- *)
Digits == {"0", "1", "2", "3", "4", "5", "6", "7", "8", "9"}
Upper ==
    {"A", "B", "C", "D", "E", "F", "G", "H", "I", "J", "K", "L", "M",
     "N", "O", "P", "Q", "R", "S", "T", "U", "V", "W", "X", "Y", "Z"}

PrefixNode == <<"C", "1", "4", "4", "N", "-">>
PrefixArcana == <<"C", "1", "4", "4", "N", "-", "A", "R", "C", "A", "N", "A", "-">>

\* (variant: pattern.match, the end of the value is not looked at)
PatternFullmatch_unanchored(s) ==
    \/ /\ Len(s) >= Len(PrefixNode) + 3
       /\ SubSeq(s, 1, Len(PrefixNode)) = PrefixNode
       /\ \A i \in (Len(PrefixNode) + 1)..(Len(PrefixNode) + 3) : s[i] \in Digits
    \/ /\ Len(s) >= Len(PrefixArcana) + 1
       /\ SubSeq(s, 1, Len(PrefixArcana)) = PrefixArcana
       /\ s[Len(PrefixArcana) + 1] \in Upper \cup Digits \cup {"_", "-"}

\* re.compile(r"^(C144N-[0-9]{3}|C144N-ARCANA-[A-Z0-9_-]+)$").fullmatch(value)
PatternFullmatch(s) ==
    \/ /\ Len(s) = Len(PrefixNode) + 3
       /\ SubSeq(s, 1, Len(PrefixNode)) = PrefixNode
       /\ \A i \in (Len(PrefixNode) + 1)..Len(s) : s[i] \in Digits
    \/ /\ Len(s) >= Len(PrefixArcana) + 1
       /\ SubSeq(s, 1, Len(PrefixArcana)) = PrefixArcana
       /\ \A i \in (Len(PrefixArcana) + 1)..Len(s) : s[i] \in Upper \cup Digits \cup {"_", "-"}

\* the fallback validator: "ok", or the tail of the ValueError message
ensure_schema_minimum(node) ==
    IF "id" \notin DOMAIN node THEN "missing 'id'"
    ELSE IF ~IsStr(node.id) THEN "id must be a string"
    ELSE IF ~PatternFullmatch(node.id.str) THEN "id does not match pattern"
    ELSE "ok"

\* validate_node: "ok", or the tail of the message of the ValueError it
\* raises.  This is the branch taken when jsonschema cannot be imported; the
\* other branch checks the node against schemas/node.schema.json, a document
\* that is not among the sources.
validate_node_accepting_all(node) == "ok" \* (variant: no check at all)
validate_node(node) == ensure_schema_minimum(node)

(* ------------------------- provenance annotation ----------------------- *)
\* os.getenv('GITHUB_SHA', '')[:12]
GitCommit == "0123456789ab"
CompilerTag == "compile_codex.py@v1"

\* the entry normalise_node appends; t is what datetime.now() returned
SourceEntry(source, t) ==
    [path |-> source, commit |-> GitCommit, timestamp |-> t, compiler |-> CompilerTag]

\* normalise_node(node, source), the returned snapshot
normalise_node(node, source, t) ==
    LET snapshot == SetDefault(node, "provenance", << >>)
        provenance == SetDefault(snapshot.provenance, "sources", << >>)
    IN  Put(snapshot, "provenance",
            Put(provenance, "sources", Append(provenance.sources, SourceEntry(source, t))))

\* the argument node as the call leaves it: dict(node) copies the top level
\* only, so snapshot['provenance'] is the caller's provenance dict when the
\* argument has one, and setdefault and append act on that dict
normalise_node_argument(node, source, t) ==
    IF "provenance" \in DOMAIN node
    THEN Put(node, "provenance", normalise_node(node, source, t).provenance)
    ELSE node

(* --------------------------- markdown extractor ------------------------ *)
\* A markdown text is a sequence of tokens: the tagged fence (three
\* backquotes and json), the bare fence (three backquotes), the braces, a line feed, an object member, and a word of
\* prose.  The first three characters of a tagged fence are a bare fence.
\* <fence> stands for the three backquotes
OPEN == "<fence>json"
FENCE == "<fence>"
LF == "\n"
MemberAlpha == "\"title\": \"Alpha\""
MemberBeta == "\"title\": \"Beta\""
Word == "text"

\* the member a token spells, as json.loads returns it
Members == [x \in {MemberAlpha, MemberBeta} |->
               IF x = MemberAlpha THEN [title |-> "Alpha"] ELSE [title |-> "Beta"]]

\* \s* from position i: the first position at or after i that is no white space
RECURSIVE SkipSpace(_, _)
SkipSpace(text, i) ==
    IF i <= Len(text) /\ text[i] = LF THEN SkipSpace(text, i + 1) ELSE i

\* a closing brace, \s* and three backquotes at position k: the position of the closing fence, 0 if none
ClosingFence(text, k) ==
    LET m == SkipSpace(text, k + 1)
    IN  IF text[k] = "}" /\ m <= Len(text) /\ text[m] \in {FENCE, OPEN} THEN m ELSE 0

\* (variant: [\s\S]* without the question mark, the last such brace)
FirstClose_greedy(text, k) ==
    LET closing == {c \in k..Len(text) : ClosingFence(text, c) # 0}
    IN  IF closing = {} THEN 0 ELSE CHOOSE c \in closing : \A d \in closing : d <= c

\* [\s\S]*?\} after the brace at j: the first closing brace at or after k
\* that a fence follows, 0 if none
RECURSIVE FirstClose(_, _)
FirstClose(text, k) ==
    IF k > Len(text) THEN 0
    ELSE IF ClosingFence(text, k) # 0 THEN k
    ELSE FirstClose(text, k + 1)

\* FENCE matched at position i: group 1 and the position of the closing
\* fence, or end = 0 when there is no match at i
MatchAt(text, i) ==
    LET j == SkipSpace(text, i + 1)
        k == IF j <= Len(text) /\ text[j] = "{" THEN FirstClose(text, j + 1) ELSE 0
    IN  IF text[i] = OPEN /\ k # 0
        THEN [group |-> SubSeq(text, j, k), end |-> ClosingFence(text, k)]
        ELSE [group |-> << >>, end |-> 0]

\* json.loads(group) of a group that starts and ends with a brace: the
\* object, or an exception
json_loads(group) ==
    LET NotSpace(x) == x # LF
        inner == SelectSeq(SubSeq(group, 2, Len(group) - 1), NotSpace)
    IN  IF inner = << >> THEN [ok |-> TRUE, value |-> << >>]
        ELSE IF Len(inner) = 1 /\ inner[1] \in DOMAIN Members
        THEN [ok |-> TRUE, value |-> Members[inner[1]]]
        ELSE [ok |-> FALSE, value |-> << >>]

\* for match in FENCE.finditer(md_text): the scan from position i on
RECURSIVE finditer(_, _, _)
finditer(text, i, blocks) ==
    IF i > Len(text) THEN blocks
    ELSE LET match == MatchAt(text, i)
         IN  IF match.end = 0 THEN finditer(text, i + 1, blocks)
             ELSE finditer(text, match.end + 1,
                           IF json_loads(match.group).ok
                           THEN Append(blocks, json_loads(match.group).value)
                           ELSE blocks)

extract_json_blocks(text) == finditer(text, 1, << >>)

(* ------------------------ canonical JSON and hash ---------------------- *)
\* json.dumps(x, sort_keys=True).encode('utf-8') as a sequence of byte-like
\* tokens, all below HashBase
HashBase == 127
HashModulus == 16777216

Alphabet ==
    <<"-", "0", "1", "2", "3", "4", "5", "6", "7", "8", "9",
      "A", "B", "C", "D", "E", "F", "G", "H", "I", "J", "K", "L", "M",
      "N", "O", "P", "Q", "R", "S", "T", "U", "V", "W", "X", "Y", "Z", "_",
      "a", "b", "d", "i", "x">>
CharCode(c) == CHOOSE i \in 1..Len(Alphabet) : Alphabet[i] = c

\* strings the compiler never looks into
WordCode(w) ==
    CASE w = "Alpha" -> 50
      [] w = "Beta" -> 51
      [] w = "nodes" -> 52
      [] w = "codex" -> 53
      [] w = GitCommit -> 54
      [] w = CompilerTag -> 55
      [] w = "upstream" -> 56

TokOpen == 120
TokClose == 121
TokQuote == 122
TokNumber == 123
KeyCode(k) ==
    CASE k = "_hash" -> 100
      [] k = "id" -> 101
      [] k = "provenance" -> 102
      [] k = "title" -> 103
      [] k = "versions" -> 104
      [] k = "sources" -> 105
      [] k = "commit" -> 106
      [] k = "compiler" -> 107
      [] k = "path" -> 108
      [] k = "timestamp" -> 109

DumpsChars(s) == <<TokQuote>> \o [i \in 1..Len(s) |-> CharCode(s[i])] \o <<TokQuote>>
DumpsNat(n) == <<TokNumber, n % 100, (n \div 100) % 100, (n \div 10000) % 100, n \div 1000000>>
DumpsId(v) == IF IsStr(v) THEN DumpsChars(v.str) ELSE DumpsNat(v.num)

\* one provenance.sources entry, keys in sorted order
DumpsSource(e) ==
    <<TokOpen, KeyCode("commit"), WordCode(e.commit), KeyCode("compiler"), WordCode(e.compiler),
      KeyCode("path"), WordCode(e.path[1]), e.path[2], KeyCode("timestamp"), e.timestamp, TokClose>>

RECURSIVE DumpsSources(_)
DumpsSources(srcs) ==
    IF srcs = << >> THEN << >> ELSE DumpsSource(Head(srcs)) \o DumpsSources(Tail(srcs))

DumpsProvenance(p) ==
    <<TokOpen>>
        \o (IF "sources" \in DOMAIN p
            THEN <<KeyCode("sources"), TokOpen>> \o DumpsSources(p.sources) \o <<TokClose>>
            ELSE << >>)
        \o <<TokClose>>

RECURSIVE json_dumps(_)
RECURSIVE DumpsVersions(_)
\* json.dumps(node, sort_keys=True): "_hash" < "id" < "provenance" < "title" < "versions"
json_dumps(node) ==
    <<TokOpen>>
        \o (IF "_hash" \in DOMAIN node THEN <<KeyCode("_hash")>> \o DumpsNat(node["_hash"]) ELSE << >>)
        \o (IF "id" \in DOMAIN node THEN <<KeyCode("id")>> \o DumpsId(node.id) ELSE << >>)
        \o (IF "provenance" \in DOMAIN node
            THEN <<KeyCode("provenance")>> \o DumpsProvenance(node.provenance) ELSE << >>)
        \o (IF "title" \in DOMAIN node THEN <<KeyCode("title"), WordCode(node.title)>> ELSE << >>)
        \o (IF "versions" \in DOMAIN node
            THEN <<KeyCode("versions"), TokOpen>> \o DumpsVersions(node.versions) \o <<TokClose>>
            ELSE << >>)
        \o <<TokClose>>
DumpsVersions(vs) ==
    IF vs = << >> THEN << >> ELSE json_dumps(Head(vs)) \o DumpsVersions(Tail(vs))

RECURSIVE Digest(_, _)
\* the digest of a byte sequence, started from h
Digest(h, blob) ==
    IF blob = << >> THEN h
    ELSE Digest((h * HashBase + Head(blob)) % HashModulus, Tail(blob))

\* sha256_bytes(blob): a fixed-width fingerprint of the bytes
sha256_bytes(blob) == Digest(7, blob)

(* ------------------------------ merge engine --------------------------- *)
\* strip(meta) inside nodes_equal
strip(meta) == Pop(Pop(meta, "provenance"), "versions")

\* (variant: provenance takes part in the comparison)
nodes_equal_with_provenance(left, right) == Pop(left, "versions") = Pop(right, "versions")
nodes_equal(left, right) == strip(left) = strip(right)

\* variant.get('_hash'); -1 stands for None, which equals no hash
VariantHash(variant) == Get(variant, "_hash", -1)

\* lines 70-72: equal content, the sources of incoming go after those of current
\* (variants: the provenance of incoming replaces that of current; source
\* entries already present are left out)
merge_provenance_overwriting(current, incoming) ==
    Put(current, "provenance", Get(incoming, "provenance", << >>))
merge_provenance_deduplicating(current, incoming) ==
    LET cur == SetDefault(current, "provenance", << >>)
        prov == SetDefault(cur.provenance, "sources", << >>)
        extra == Get(Get(incoming, "provenance", << >>), "sources", << >>)
        Fresh(e) == \A i \in 1..Len(prov.sources) : prov.sources[i] # e
    IN  Put(cur, "provenance", Put(prov, "sources", prov.sources \o SelectSeq(extra, Fresh)))
merge_provenance(current, incoming) ==
    LET cur == SetDefault(current, "provenance", << >>)
        prov == SetDefault(cur.provenance, "sources", << >>)
        extra == Get(Get(incoming, "provenance", << >>), "sources", << >>)
    IN  Put(cur, "provenance", Put(prov, "sources", prov.sources \o extra))

\* lines 74-79: differing content, incoming is archived unless its hash is known
\* (variants: no hash test; incoming promoted to current; provenance merged too)
archive_variant_unconditionally(current, incoming) ==
    LET cur == SetDefault(current, "versions", << >>)
        incoming_hash == sha256_bytes(json_dumps(incoming))
    IN  Put(cur, "versions", Append(cur.versions, Put(incoming, "_hash", incoming_hash)))
archive_variant_promoting(current, incoming) ==
    LET old == SetDefault(current, "versions", << >>).versions
        current_hash == sha256_bytes(json_dumps(Pop(current, "versions")))
    IN  Put(incoming, "versions", Append(old, Put(Pop(current, "versions"), "_hash", current_hash)))
archive_variant_with_provenance(current, incoming) ==
    LET cur == merge_provenance(SetDefault(current, "versions", << >>), incoming)
        incoming_hash == sha256_bytes(json_dumps(incoming))
    IN  IF ~\E i \in 1..Len(cur.versions) : VariantHash(cur.versions[i]) = incoming_hash
        THEN Put(cur, "versions", Append(cur.versions, Put(incoming, "_hash", incoming_hash)))
        ELSE cur
archive_variant(current, incoming) ==
    LET cur == SetDefault(current, "versions", << >>)
        incoming_hash == sha256_bytes(json_dumps(incoming))
    IN  IF ~\E i \in 1..Len(cur.versions) : VariantHash(cur.versions[i]) = incoming_hash
        THEN Put(cur, "versions", Append(cur.versions, Put(incoming, "_hash", incoming_hash)))
        ELSE cur

\* append_only_merge(current, incoming), the returned current
append_only_merge(current, incoming) ==
    IF nodes_equal(current, incoming)
    THEN merge_provenance(current, incoming)
    ELSE archive_variant(current, incoming)

(* ------------------------------- the run ------------------------------- *)
\* the ledgers list of collect_nodes has two entries
NumLedgers == 2

NodePath(i) == <<"nodes", i>>
LedgerPath(i) == <<"codex", i>>

\* what load_json returns for a card, tokens or cosmology file
BlobResults == {[t |-> "null"], [t |-> "object", v |-> << >>], [t |-> "object", v |-> [title |-> "Alpha"]]}

VARIABLES
    pc,          \* where the run is: "nodes", "ledgers", "blocks", "cards", "tokens", "main", "done", "failed"
    compiled,    \* the dict compiled, in insertion order: a sequence of [key, value]
    fileIdx,     \* loose node files read so far
    ledgerIdx,   \* ledgers visited so far
    blocksLeft,  \* blocks of the open ledger still to visit
    now,         \* the last value datetime.now() returned
    node,        \* the local node of collect_nodes, as normalise_node returned it
    seen,        \* the raw fragments that passed validate_node, in order
    error,       \* the exception that ended the run: its type, the source and the detail of its message
    cards,       \* the list cards
    cardIdx,     \* card files read so far
    tokens,      \* the local tokens
    cosmo_codex, \* the local cosmo_codex
    dist,        \* the files written under DIST: name -> payload
    exit_code,   \* the exit status of the process, -1 while it runs
    inputs,      \* node files, ledger blocks and card files met so far
    card,        \* the local card of collect_nodes: what load_json last returned for a card file
    data,        \* the object handed to normalise_node, as the call leaves it
    md_text,     \* the text handed to extract_json_blocks
    snippets,    \* the list extract_json_blocks returned
    tree,        \* the source tree under SHARED when main is run again over it
    listing,     \* the order in which glob.glob returns the files of nodes and liber
    runs,        \* the earlier runs of main: listing, files under DIST, exit status, error
    src_files,   \* copy_offline: the files under source, relative path -> bytes
    dest_files,  \* copy_offline: the files under target, relative path -> content
    written,     \* copy_offline: the list written
    pending,     \* copy_offline: the files of source that os.walk has not yet yielded
    dest_before  \* copy_offline: the files under target at the start of each call

vars ==
    <<pc, compiled, fileIdx, ledgerIdx, blocksLeft, now, node, seen, error,
      cards, cardIdx, tokens, cosmo_codex, dist, exit_code, inputs,
      card, data, md_text, snippets, tree, listing, runs,
      src_files, dest_files, written, pending, dest_before>>

\* data, md_text and snippets belong to the specifications of the single
\* functions, tree, listing and runs to the one of repeated runs; the steps
\* of a run leave them alone
copier == <<src_files, dest_files, written, pending, dest_before>>
aside == <<data, md_text, snippets, tree, listing, runs, copier>>

\* copy_offline is not being called
CopierIdle ==
    /\ src_files = << >> /\ dest_files = << >> /\ written = << >>
    /\ pending = {} /\ dest_before = << >>

\* no exception so far
NoError == [exc |-> "", source |-> <<"", 0>>, detail |-> ""]

\* node_id in compiled
Keys(c) == {c[i].key : i \in 1..Len(c)}
\* compiled[node_id]
Lookup(c, k) == c[CHOOSE i \in 1..Len(c) : c[i].key = k].value
\* compiled[node_id] = value: a new key goes last, a known key keeps its place
\* (variants: a list that is appended to; a known key moves to the end)
DictSet_appending(c, k, value) == Append(c, [key |-> k, value |-> value])
DictSet_moving_last(c, k, value) ==
    LET Other(e) == e.key # k
    IN  Append(SelectSeq(c, Other), [key |-> k, value |-> value])
DictSet(c, k, value) ==
    IF k \in Keys(c)
    THEN [i \in 1..Len(c) |-> IF c[i].key = k THEN [key |-> k, value |-> value] ELSE c[i]]
    ELSE Append(c, [key |-> k, value |-> value])
\* list(nodes.values())
Values(c) == [i \in 1..Len(c) |-> c[i].value]

Init ==
    /\ pc = "nodes"
    /\ compiled = << >>
    /\ fileIdx = 0
    /\ ledgerIdx = 0
    /\ blocksLeft = 0
    /\ now = 0
    /\ node = << >>
    /\ seen = << >>
    /\ error = NoError
    /\ cards = << >>
    /\ cardIdx = 0
    /\ tokens = [t |-> "null"]
    /\ cosmo_codex = [t |-> "null"]
    /\ dist = << >>
    /\ exit_code = -1
    /\ inputs = 0
    /\ card = [t |-> "null"]
    /\ data = << >>
    /\ md_text = << >>
    /\ snippets = << >>
    /\ tree = << >>
    /\ listing = << >>
    /\ runs = << >>
    /\ CopierIdle

\* an uncaught exception leaves collect_nodes and main; a ValueError of
\* validate_node reads "Schema validation failed for {source}: {detail}"
Abort(exc, source, detail) ==
    /\ pc' = "failed"
    /\ error' = [exc |-> exc, source |-> source, detail |-> detail]
    /\ exit_code' = 1

\* lines 121-126 and 141-146: annotate, validate, then insert or merge
Ingest(raw, source, t, nextpc) ==
    LET node_id == raw.id
        annotated == normalise_node(raw, source, t)
        verdict == validate_node(annotated)
    IN  /\ now' = t
        /\ node' = annotated
        /\ IF verdict # "ok"
           THEN /\ Abort("ValueError", source, verdict)
                /\ UNCHANGED <<compiled, seen>>
           ELSE /\ compiled' =
                     IF node_id \notin Keys(compiled)
                     THEN DictSet(compiled, node_id, annotated)
                     ELSE DictSet(compiled, node_id, append_only_merge(Lookup(compiled, node_id), annotated))
                /\ seen' = Append(seen, raw)
                /\ pc' = nextpc
                /\ UNCHANGED <<error, exit_code>>

\* lines 114-126: one iteration over sorted(glob(nodes/*.json))
LoadNodeFile(loaded, t) ==
    /\ pc = "nodes"
    /\ inputs < MaxInputs
    /\ inputs' = inputs + 1
    /\ fileIdx' = fileIdx + 1
    /\ UNCHANGED <<ledgerIdx, blocksLeft, cards, cardIdx, tokens, cosmo_codex, dist, card, aside>>
    /\ IF Falsy(loaded)
       THEN UNCHANGED <<pc, compiled, now, node, seen, error, exit_code>>
       ELSE IF loaded.t # "object"
       THEN /\ Abort("AttributeError", NoError.source, "'list' object has no attribute 'get'")
            /\ UNCHANGED <<compiled, now, node, seen>>
       ELSE IF ~Truthy(Get(loaded.v, "id", None))
       THEN UNCHANGED <<pc, compiled, now, node, seen, error, exit_code>>
       ELSE Ingest(loaded.v, NodePath(fileIdx + 1), t, "nodes")

\* the glob has no further node file
EndNodeFiles ==
    /\ pc = "nodes"
    /\ pc' = "ledgers"
    /\ UNCHANGED <<compiled, fileIdx, ledgerIdx, blocksLeft, now, node, seen, error,
                   cards, cardIdx, tokens, cosmo_codex, dist, exit_code, inputs, card, aside>>

\* lines 132-136: the next ledger is absent, or is read and yields n blocks
OpenLedger(exists, n) ==
    /\ pc = "ledgers"
    /\ ledgerIdx < NumLedgers
    /\ inputs + n <= MaxInputs
    /\ inputs' = IF exists THEN inputs + n ELSE inputs
    /\ ledgerIdx' = ledgerIdx + 1
    /\ blocksLeft' = IF exists THEN n ELSE 0
    /\ pc' = IF exists /\ n > 0 THEN "blocks" ELSE "ledgers"
    /\ UNCHANGED <<compiled, fileIdx, now, node, seen, error,
                   cards, cardIdx, tokens, cosmo_codex, dist, exit_code, card, aside>>

\* lines 137-146: one iteration over snippets
IngestBlock(block, t) ==
    /\ pc = "blocks"
    /\ blocksLeft > 0
    /\ blocksLeft' = blocksLeft - 1
    /\ UNCHANGED <<fileIdx, ledgerIdx, cards, cardIdx, tokens, cosmo_codex, dist, inputs, card, aside>>
    /\ LET nextpc == IF blocksLeft = 1 THEN "ledgers" ELSE "blocks" IN
       IF ~Truthy(Get(block, "id", None))
       THEN /\ pc' = nextpc
            /\ UNCHANGED <<compiled, now, node, seen, error, exit_code>>
       ELSE Ingest(block, LedgerPath(ledgerIdx), t, nextpc)

\* (variant: the loose node files are read after the ledgers)
EndLedgers_then_nodes ==
    /\ pc = "ledgers"
    /\ ledgerIdx = NumLedgers
    /\ pc' = "nodes"
    /\ UNCHANGED <<compiled, fileIdx, ledgerIdx, blocksLeft, now, node, seen, error,
                   cards, cardIdx, tokens, cosmo_codex, dist, exit_code, inputs, card, aside>>

\* both ledgers are done
EndLedgers ==
    /\ pc = "ledgers"
    /\ ledgerIdx = NumLedgers
    /\ pc' = "cards"
    /\ UNCHANGED <<compiled, fileIdx, ledgerIdx, blocksLeft, now, node, seen, error,
                   cards, cardIdx, tokens, cosmo_codex, dist, exit_code, inputs, card, aside>>

\* (variant: a card is stamped with provenance like a node)
LoadCard_stamping(loaded) ==
    /\ pc = "cards"
    /\ inputs < MaxInputs
    /\ inputs' = inputs + 1
    /\ cardIdx' = cardIdx + 1
    /\ card' = loaded
    /\ cards' = IF Falsy(loaded) THEN cards
                ELSE Append(cards, normalise_node(loaded.v, <<"liber", cardIdx + 1>>, now))
    /\ UNCHANGED <<pc, compiled, fileIdx, ledgerIdx, blocksLeft, now, node, seen, error,
                   tokens, cosmo_codex, dist, exit_code, aside>>

\* lines 150-153: one iteration over sorted(glob(liber/*.json))
LoadCard(loaded) ==
    /\ pc = "cards"
    /\ inputs < MaxInputs
    /\ inputs' = inputs + 1
    /\ cardIdx' = cardIdx + 1
    /\ card' = loaded
    /\ cards' = IF Falsy(loaded) THEN cards ELSE Append(cards, loaded.v)
    /\ UNCHANGED <<pc, compiled, fileIdx, ledgerIdx, blocksLeft, now, node, seen, error,
                   tokens, cosmo_codex, dist, exit_code, aside>>

\* lines 155-158: the glob has no further card; tokens and cosmology are loaded
LoadBlobs(tok, cos) ==
    /\ pc = "cards"
    /\ tokens' = tok
    /\ cosmo_codex' = cos
    /\ pc' = "main"
    /\ UNCHANGED <<compiled, fileIdx, ledgerIdx, blocksLeft, now, node, seen, error,
                   cards, cardIdx, dist, exit_code, inputs, card, aside>>

\* sum(len(node.get('versions', [])) for node in nodes.values())
\* (variant: every node counts as one version)
VersionsTotal_counting_nodes(values) == Len(values)

RECURSIVE VersionsTotal(_)
VersionsTotal(values) ==
    IF values = << >> THEN 0
    ELSE Len(Get(Head(values), "versions", << >>)) + VersionsTotal(Tail(values))

\* (variant: codex.json and index.json are written also when collect_nodes
\* raised, as in a finally clause)
WriteArtifacts_in_finally(t) ==
    /\ pc \in {"main", "failed"}
    /\ "codex.json" \notin DOMAIN dist
    /\ now' = t
    /\ dist' = Put(Put(dist, "codex.json", [nodes |-> Values(compiled)]), "index.json",
                   [built_utc |-> t, git_commit |-> GitCommit,
                    counts |-> [nodes |-> Len(compiled), cards |-> Len(cards),
                                versions_total |-> VersionsTotal(Values(compiled))]])
    /\ exit_code' = IF pc = "main" THEN 0 ELSE 1
    /\ pc' = IF pc = "main" THEN "done" ELSE "failed"
    /\ UNCHANGED <<compiled, fileIdx, ledgerIdx, blocksLeft, node, seen, error,
                   cards, cardIdx, tokens, cosmo_codex, inputs, card, aside>>

\* lines 170-197: the metadata and the writes of main
WriteArtifacts(t) ==
    /\ pc = "main"
    /\ now' = t
    /\ LET meta == [built_utc |-> t, git_commit |-> GitCommit,
                    counts |-> [nodes |-> Len(compiled), cards |-> Len(cards),
                                versions_total |-> VersionsTotal(Values(compiled))]]
           d1 == Put(Put(dist, "codex.json", [nodes |-> Values(compiled)]), "index.json", meta)
           d2 == IF cards # << >> THEN Put(d1, "cards.json", [cards |-> cards]) ELSE d1
           d3 == IF ~Falsy(tokens) THEN Put(d2, "c99/tokens/perm-style.json", tokens.v) ELSE d2
           d4 == IF ~Falsy(cosmo_codex) THEN Put(d3, "cosmo_codex.json", cosmo_codex.v) ELSE d3
       IN  dist' = d4
    /\ exit_code' = 0
    /\ pc' = "done"
    /\ UNCHANGED <<compiled, fileIdx, ledgerIdx, blocksLeft, node, seen, error,
                   cards, cardIdx, tokens, cosmo_codex, inputs, card, aside>>

Next ==
    \/ \E loaded \in LoadResults, t \in now..MaxClock : LoadNodeFile(loaded, t)
    \/ EndNodeFiles
    \/ \E exists \in BOOLEAN, n \in 0..MaxInputs : OpenLedger(exists, n)
    \/ \E block \in Fragments \cup {<< >>}, t \in now..MaxClock : IngestBlock(block, t)
    \/ EndLedgers
    \/ \E loaded \in BlobResults : LoadCard(loaded)
    \/ \E tok \in BlobResults, cos \in BlobResults : LoadBlobs(tok, cos)
    \/ \E t \in now..MaxClock : WriteArtifacts(t)

Spec == Init /\ [][Next]_vars

(* ------------------------------ properties ----------------------------- *)
IsPrefix(a, b) == Len(a) <= Len(b) /\ SubSeq(b, 1, Len(a)) = a

Sources(n) == Get(Get(n, "provenance", << >>), "sources", << >>)
Versions(n) == Get(n, "versions", << >>)

\* a record without its bookkeeping: provenance, versions and _hash
Content(n) == Pop(strip(n), "_hash")

\* the validated fragments ingested so far for the id k, in order
HistoryOf(k) == LET SameId(f) == f.id = k IN SelectSeq(seen, SameId)

\* the step ingested a validated fragment
Ingested == seen' # seen

\* the schema's demand on a node: a string id of one of the two allowed forms
SchemaConforming(n) ==
    /\ "id" \in DOMAIN n
    /\ IsStr(n.id)
    /\ PatternFullmatch(n.id.str)

\* the records the compiled mapping holds: current records and versions entries
Held ==
    {compiled[i].value : i \in 1..Len(compiled)}
        \cup UNION {{Versions(compiled[i].value)[j] : j \in 1..Len(Versions(compiled[i].value))} :
                       i \in 1..Len(compiled)}

\* C1: a fragment reaches the compiled mapping, as a current record or inside
\* a versions list, only after validate_node accepted it: every record held
\* conforms to the schema, and a run stopped by a validation error holds no
\* record with the id of the rejected fragment.
C1_ValidatedBeforeMerge ==
    /\ \A n \in Held : SchemaConforming(n)
    /\ (pc = "failed" /\ error.exc = "ValueError") => \A n \in Held : n.id # node.id

\* a run that merged a variant was then stopped by a fragment with a bad id
C1_Witness ==
    /\ pc = "failed"
    /\ error.detail = "id does not match pattern"
    /\ \E i \in 1..Len(compiled) : Len(Versions(compiled[i].value)) = 1

\* C2: the node list written to codex.json holds at most one record per id.
C2_OneCurrentPerId ==
    "codex.json" \in DOMAIN dist =>
        LET nodes == dist["codex.json"].nodes
        IN  \A i, j \in 1..Len(nodes) : nodes[i].id = nodes[j].id => i = j

\* codex.json was written with two nodes after three fragments were ingested
C2_Witness ==
    /\ "codex.json" \in DOMAIN dist
    /\ Len(dist["codex.json"].nodes) = 2
    /\ Len(seen) = 3

\* C3: in every step, every id of the compiled mapping stays in it and the
\* old provenance.sources of its node is a prefix of the new one.
C3_SourcesOnlyGrow ==
    [][\A k \in Keys(compiled) :
          /\ k \in Keys(compiled')
          /\ IsPrefix(Sources(Lookup(compiled, k)), Sources(Lookup(compiled', k)))]_vars

\* a node whose sources were extended by a merge
C3_Witness ==
    \E i \in 1..Len(compiled) : Len(Sources(compiled[i].value)) = 3

\* no two entries of a versions list have the same _hash
DistinctHashes(versions) ==
    \A i, j \in 1..Len(versions) : VariantHash(versions[i]) = VariantHash(versions[j]) => i = j

C5_VariantArchivedOnce ==
    \A i \in 1..Len(compiled) :
        LET versions == Versions(compiled[i].value)
        IN  \A a, b \in 1..Len(versions) :
                Content(versions[a]) = Content(versions[b]) => a = b

\* the history of the id k is X, Y, X with X and Y of differing payload
IsXYX(k) ==
    LET h == HistoryOf(k)
    IN  Len(h) = 3 /\ h[1] = h[3] /\ h[1] # h[2]

\* C6 as stated: after X, Y, X the node has exactly 3 entries in
\* provenance.sources, one per ingested fragment.
C6_ThreeSourcesAfterXYX ==
    \A k \in Keys(compiled) : IsXYX(k) => Len(Sources(Lookup(compiled, k))) = 3

\* C6 amended: after X, Y, X the node's provenance.sources holds exactly the 2
\* entries of the two X fragments; the entry of Y is kept in the provenance
\* of Y's versions entry.
C6_TwoSourcesAfterXYX ==
    \A k \in Keys(compiled) :
        IsXYX(k) =>
            LET cur == Lookup(compiled, k)
            IN  /\ Len(Sources(cur)) = 2
                /\ Len(Versions(cur)) = 1
                /\ Len(Sources(Versions(cur)[1])) = 1

\* X from a node file, then Y and X from two blocks of one ledger
C6_Witness ==
    \E k \in Keys(compiled) :
        /\ IsXYX(k)
        /\ Sources(Lookup(compiled, k))[1].path[1] = "nodes"
        /\ Sources(Lookup(compiled, k))[2].path[1] = "codex"

\* C7: after X, Y, X the current record has the content X and versions has
\* exactly one entry, of content Y; the second X is not archived.
C7_XYXKeepsXArchivesY ==
    \A k \in Keys(compiled) :
        IsXYX(k) =>
            LET cur == Lookup(compiled, k)
                h == HistoryOf(k)
            IN  /\ Content(cur) = h[1]
                /\ Len(Versions(cur)) = 1
                /\ Content(Versions(cur)[1]) = h[2]

\* X, Y, X was ingested from three different node files
C7_Witness ==
    \E k \in Keys(compiled) : IsXYX(k) /\ fileIdx = 3

\* C8: when the incoming node equals the current one in all fields but
\* provenance and versions, the merge appends the sources of incoming, in
\* order, to the sources of current and changes no other field of current.
C8_EqualContentAppendsSources ==
    [][\A k \in Keys(compiled) :
          (Ingested /\ node'.id = k /\ nodes_equal(Lookup(compiled, k), node')) =>
              LET cur == Lookup(compiled, k)
                  new == Lookup(compiled', k)
              IN  /\ DOMAIN new = DOMAIN cur
                  /\ \A f \in (DOMAIN cur) \ {"provenance"} : new[f] = cur[f]
                  /\ DOMAIN new.provenance = DOMAIN cur.provenance
                  /\ new.provenance.sources = cur.provenance.sources \o node'.provenance.sources]_vars

\* a node that has an archived variant received the sources of an equal fragment
C8_Witness ==
    \E k \in Keys(compiled) :
        /\ Len(Versions(Lookup(compiled, k))) = 1
        /\ Len(Sources(Lookup(compiled, k))) = 2
        /\ nodes_equal(Lookup(compiled, k), node)
        /\ Sources(Lookup(compiled, k))[2] = Sources(node)[1]

\* C9: the payload of a compiled node is that of the first validated
\* fragment seen for its id; later fragments never change it.
C9_FirstSightingStays ==
    \A k \in Keys(compiled) :
        /\ HistoryOf(k) # << >>
        /\ strip(Lookup(compiled, k)) = HistoryOf(k)[1]

\* an id was seen three times and the last two fragments differ from the first
C9_Witness ==
    \E k \in Keys(compiled) :
        LET h == HistoryOf(k)
        IN  Len(h) = 3 /\ h[2] # h[1] /\ h[3] # h[1]

\* the hash of incoming is the _hash of an entry of the versions of current
HashKnown(current, incoming) ==
    \E i \in 1..Len(Versions(current)) :
        VariantHash(Versions(current)[i]) = sha256_bytes(json_dumps(incoming))

\* C10: when incoming differs from current and its hash is already in
\* current.versions, the merge leaves current as it was.
C10_KnownVariantIsNoOp ==
    [][\A k \in Keys(compiled) :
          (/\ Ingested
           /\ node'.id = k
           /\ ~nodes_equal(Lookup(compiled, k), node')
           /\ HashKnown(Lookup(compiled, k), node')) =>
              Lookup(compiled', k) = Lookup(compiled, k)]_vars

\* the same block was met twice in one ledger at one instant: one entry only
C10_Witness ==
    \E k \in Keys(compiled) :
        LET h == HistoryOf(k)
            cur == Lookup(compiled, k)
        IN  /\ Len(h) = 3 /\ h[2] = h[3] /\ h[2] # h[1]
            /\ Len(Versions(cur)) = 1
            /\ Sources(node) = Sources(Versions(cur)[1])

\* the history of the id k is one fragment met n >= 2 times
IsRepeated(k) ==
    LET h == HistoryOf(k)
    IN  Len(h) >= 2 /\ \A i \in 1..Len(h) : h[i] = h[1]

\* C11: the same unchanged fragment ingested n >= 2 times for an id, also
\* from one source path, gives n entries in provenance.sources, duplicates
\* kept, and no versions.
C11_RepeatedFragmentAddsSources ==
    \A k \in Keys(compiled) :
        IsRepeated(k) =>
            /\ Len(Sources(Lookup(compiled, k))) = Len(HistoryOf(k))
            /\ Versions(Lookup(compiled, k)) = << >>

\* one block met twice in one ledger at one instant: two equal source entries
C11_Witness ==
    \E k \in Keys(compiled) :
        /\ IsRepeated(k)
        /\ Len(Sources(Lookup(compiled, k))) = 2
        /\ Sources(Lookup(compiled, k))[1] = Sources(Lookup(compiled, k))[2]

\* the tree had one loose node file and one ledger block, no card, and both
\* fragments carried one id and one content
OneFileOneBlockSame ==
    /\ pc = "done"
    /\ fileIdx = 1 /\ cardIdx = 0 /\ inputs = 2
    /\ Len(seen) = 2 /\ seen[1] = seen[2]

\* C12: one loose node file and one ledger block with the same id and content
\* compile to one node with two source entries, the file's path before the
\* ledger's, no versions, and counts nodes = 1, cards = 0, versions_total = 0.
C12_FileAndLedgerBlockSameContent ==
    OneFileOneBlockSame =>
        LET nodes == dist["codex.json"].nodes
            counts == dist["index.json"].counts
        IN  /\ Len(nodes) = 1
            /\ nodes[1].id = seen[1].id
            /\ Len(Sources(nodes[1])) = 2
            /\ Sources(nodes[1])[1].path = NodePath(1)
            /\ Sources(nodes[1])[2].path \in {LedgerPath(i) : i \in 1..NumLedgers}
            /\ Versions(nodes[1]) = << >>
            /\ counts = [nodes |-> 1, cards |-> 0, versions_total |-> 0]

C12_Witness ==
    /\ OneFileOneBlockSame
    /\ "cards.json" \notin DOMAIN dist
    /\ dist["index.json"].counts.nodes = 1

\* this step reaches a fragment whose id is of neither allowed form
ReachesBadId == node' # node /\ ~SchemaConforming(node')

C15_AbortsOnlyOnSchemaFailure ==
    pc = "failed" <=> (node # << >> /\ ~SchemaConforming(node))

\* C19: every card file that load_json could parse, whatever its value, adds
\* exactly one entry, its value, at the end of the card sequence.
C19_EveryParsedCardAppended ==
    [][(cardIdx' # cardIdx /\ card'.t # "null") =>
            cards' = Append(cards, card'.v)]_vars

\* C20: a successful run writes codex.json and index.json; cards.json exactly
\* when a card was collected, the tokens document exactly when the tokens
\* file was found and parsed, the cosmology document likewise.
C20_OptionalOutputsFollowInputs ==
    pc = "done" =>
        /\ {"codex.json", "index.json"} \subseteq DOMAIN dist
        /\ "cards.json" \in DOMAIN dist <=> cards # << >>
        /\ "c99/tokens/perm-style.json" \in DOMAIN dist <=> tokens.t # "null"
        /\ "cosmo_codex.json" \in DOMAIN dist <=> cosmo_codex.t # "null"

(* ---------------------- ensure_schema_minimum alone --------------------- *)
\* longest tail of a generated id
MaxSuffix == 4

\* one character of each kind the pattern tells apart, and a line feed
IdChars == {"0", "9", "A", "_", "-", "a", "\n"}
IdHeads == {<< >>, PrefixNode, PrefixArcana, <<"x">> \o PrefixNode}
IdTails == UNION {[1..k -> IdChars] : k \in 0..MaxSuffix}

\* the nodes handed to the validator: without id, with an id that is no
\* string, with a string id
ValidateInputs ==
    {[title |-> "Alpha"], [id |-> None], [id |-> JNum(7)]}
        \cup {[id |-> JStr(h \o t)] : h \in IdHeads, t \in IdTails}

\* the variables of a run of main other than pc, node and error
run ==
    <<compiled, fileIdx, ledgerIdx, blocksLeft, now, seen, cards, cardIdx,
      tokens, cosmo_codex, dist, exit_code, inputs, card>>

\* no run of main is under way
Idle ==
    /\ compiled = << >> /\ fileIdx = 0 /\ ledgerIdx = 0 /\ blocksLeft = 0
    /\ now = 0 /\ seen = << >> /\ cards = << >> /\ cardIdx = 0
    /\ tokens = [t |-> "null"] /\ cosmo_codex = [t |-> "null"]
    /\ dist = << >> /\ exit_code = -1 /\ inputs = 0 /\ card = [t |-> "null"]

InitValidate ==
    /\ pc = "call"
    /\ node \in ValidateInputs
    /\ error = NoError
    /\ Idle
    /\ data = << >> /\ md_text = << >> /\ snippets = << >>
    /\ tree = << >> /\ listing = << >> /\ runs = << >>
    /\ CopierIdle

\* ensure_schema_minimum(node, source) returns or raises
Validate(source) ==
    /\ pc = "call"
    /\ LET verdict == ensure_schema_minimum(node)
       IN  IF verdict = "ok"
           THEN pc' = "returned" /\ error' = error
           ELSE pc' = "raised" /\ error' = [exc |-> "ValueError", source |-> source, detail |-> verdict]
    /\ UNCHANGED <<node, run, aside>>

NextValidate == \E source \in {NodePath(1), LedgerPath(1)} : Validate(source)

SpecValidate == InitValidate /\ [][NextValidate]_vars

StartsWith(s, p) == Len(s) >= Len(p) /\ \A i \in 1..Len(p) : s[i] = p[i]

\* the characters of s after its first n
CharsAfter(s, n) == {s[i] : i \in (n + 1)..Len(s)}

\* the two allowed forms, told by what is left after the prefix
AllowedId(s) ==
    \/ /\ StartsWith(s, PrefixNode)
       /\ Len(s) - Len(PrefixNode) = 3
       /\ CharsAfter(s, Len(PrefixNode)) \subseteq Digits
    \/ /\ StartsWith(s, PrefixArcana)
       /\ Len(s) - Len(PrefixArcana) >= 1
       /\ CharsAfter(s, Len(PrefixArcana)) \subseteq Upper \cup Digits \cup {"_", "-"}

\* C17: ensure_schema_minimum returns exactly for a node with a string id of
\* one of the two forms; otherwise it raises a ValueError that names the
\* first failing check: id missing, then id not a string, then the pattern.
C17_FallbackValidatorAcceptsExactly ==
    pc \in {"returned", "raised"} =>
        /\ pc = "returned" <=> ("id" \in DOMAIN node /\ IsStr(node.id) /\ AllowedId(node.id.str))
        /\ pc = "raised" =>
              /\ error.exc = "ValueError"
              /\ "id" \notin DOMAIN node <=> error.detail = "missing 'id'"
              /\ ("id" \in DOMAIN node /\ ~IsStr(node.id)) <=> error.detail = "id must be a string"
              /\ ("id" \in DOMAIN node /\ IsStr(node.id)) <=> error.detail = "id does not match pattern"

\* an id of four digits after C144N- was rejected for the pattern
C17_Witness ==
    /\ pc = "raised"
    /\ IsStr(node.id)
    /\ node.id.str = PrefixNode \o <<"0", "9", "0", "9">>
    /\ error.detail = "id does not match pattern"

(* --------------------------- normalise_node alone ----------------------- *)
\* the provenance objects an argument of normalise_node may carry
ProvenanceValues ==
    {<< >>, [sources |-> << >>]}
        \cup {[sources |-> <<SourceEntry(p, 0)>>] : p \in {NodePath(1), LedgerPath(1)}}
        \cup {[sources |-> <<SourceEntry(NodePath(1), 0), SourceEntry(LedgerPath(2), 0)>>]}

NormaliseInputs ==
    Fragments \cup {Put(f, "provenance", p) : f \in Fragments, p \in ProvenanceValues}

\* data is the caller's dict, seen keeps its value at the call
InitNormalise ==
    /\ pc = "call"
    /\ data \in NormaliseInputs
    /\ seen = <<data>>
    /\ node = << >>
    /\ error = NoError
    /\ compiled = << >> /\ fileIdx = 0 /\ ledgerIdx = 0 /\ blocksLeft = 0
    /\ now = 0 /\ cards = << >> /\ cardIdx = 0
    /\ tokens = [t |-> "null"] /\ cosmo_codex = [t |-> "null"]
    /\ dist = << >> /\ exit_code = -1 /\ inputs = 0 /\ card = [t |-> "null"]
    /\ md_text = << >> /\ snippets = << >>
    /\ tree = << >> /\ listing = << >> /\ runs = << >>
    /\ CopierIdle

\* node = normalise_node(data, source)
Normalise(source, t) ==
    /\ pc = "call"
    /\ now' = t
    /\ node' = normalise_node(data, source, t)
    /\ data' = normalise_node_argument(data, source, t)
    /\ pc' = "returned"
    /\ UNCHANGED <<compiled, fileIdx, ledgerIdx, blocksLeft, seen, error, cards, cardIdx,
                   tokens, cosmo_codex, dist, exit_code, inputs, card, md_text, snippets,
                   tree, listing, runs, copier>>

NextNormalise ==
    \E source \in {NodePath(1), LedgerPath(1)}, t \in now..MaxClock : Normalise(source, t)

SpecNormalise == InitNormalise /\ [][NextNormalise]_vars

\* C18: normalise_node returns its argument plus exactly one source entry at
\* the end of provenance.sources and leaves the argument as it was, also
\* when the argument already had a provenance object.
C18_NormaliseLeavesArgumentUnchanged ==
    pc = "returned" =>
        /\ strip(node) = strip(seen[1])
        /\ Len(Sources(node)) = Len(Sources(seen[1])) + 1
        /\ IsPrefix(Sources(seen[1]), Sources(node))
        /\ data = seen[1]

(* ------------------------- extract_json_blocks alone -------------------- *)
\* most pieces a ledger text is made of
MaxSegments == 3

\* a well-formed tagged block, and one whose closing brace is missing
GoodBlock(m) == <<OPEN, LF, "{", m, "}", LF, FENCE, LF>>
TruncatedBlock(m) == <<OPEN, LF, "{", m, LF, FENCE, LF>>

\* well-formed tagged blocks: the two objects, and an empty object on one line
GoodBlocks == {GoodBlock(MemberAlpha), GoodBlock(MemberBeta), <<OPEN, "{", "}", FENCE>>}

\* text without a tagged fence: a line of prose, an untagged block holding a
\* brace, an object outside any fence, a bare fence
Separators ==
    {<<Word, LF>>,
     <<FENCE, LF, "}", LF, FENCE, LF>>,
     <<"{", MemberBeta, "}", LF>>,
     <<FENCE>>}

\* the pieces of a text: also truncated blocks and a tag followed by a word
Segments ==
    GoodBlocks \cup Separators \cup
    {TruncatedBlock(MemberAlpha), TruncatedBlock(MemberBeta),
     <<OPEN, Word, LF, "{", MemberAlpha, "}", FENCE, LF>>}

RECURSIVE Concat(_)
Concat(pieces) == IF pieces = << >> THEN << >> ELSE Head(pieces) \o Concat(Tail(pieces))

LedgerTexts == {Concat(pieces) : pieces \in UNION {[1..k -> Segments] : k \in 0..MaxSegments}}

InitExtract ==
    /\ pc = "call"
    /\ md_text \in LedgerTexts
    /\ snippets = << >>
    /\ data = << >>
    /\ node = << >>
    /\ error = NoError
    /\ Idle
    /\ tree = << >> /\ listing = << >> /\ runs = << >>
    /\ CopierIdle

\* snippets = extract_json_blocks(md_text)
Extract ==
    /\ pc = "call"
    /\ snippets' = extract_json_blocks(md_text)
    /\ pc' = "returned"
    /\ UNCHANGED <<md_text, data, node, error, run, tree, listing, runs, copier>>

\* the same text is handed to extract_json_blocks once more
ExtractAgain ==
    /\ pc = "returned"
    /\ snippets' = extract_json_blocks(md_text)
    /\ pc' = "returned again"
    /\ UNCHANGED <<md_text, data, node, error, run, tree, listing, runs, copier>>

NextExtract == Extract \/ ExtractAgain

SpecExtract == InitExtract /\ [][NextExtract]_vars

\* the text is one well-formed block with member g and one truncated block,
\* in either order
GoodAndTruncated(g) ==
    \E m \in DOMAIN Members :
        md_text \in {GoodBlock(g) \o TruncatedBlock(m), TruncatedBlock(m) \o GoodBlock(g)}

\* C16: of a text with one well-formed tagged block and one truncated tagged
\* block, in either order, extract_json_blocks returns the object of the
\* well-formed block and nothing else.
C16_TruncatedBlockSkipped ==
    \A g \in DOMAIN Members :
        (pc = "returned" /\ GoodAndTruncated(g)) => snippets = <<Members[g]>>

(* ------------------------- main run again on one tree ------------------- *)
\* most files in the nodes directory and in the liber directory
MaxFiles == 2
\* sorted(paths), the files named by their rank in path order
RECURSIVE sorted(_)
Insert(x, ordered) ==
    LET Smaller(y) == y < x
        NotSmaller(y) == ~(y < x)
    IN  SelectSeq(ordered, Smaller) \o <<x>> \o SelectSeq(ordered, NotSmaller)

\* (variant: the files are taken in the order glob.glob returned them)
sorted_as_listed(paths) == paths
sorted(paths) ==
    IF paths = << >> THEN << >> ELSE Insert(Head(paths), sorted(Tail(paths)))

\* the orders in which glob.glob may return n files
Listings(n) == {p \in [1..n -> 1..n] : \A i, j \in 1..n : p[i] = p[j] => i = j}

RerunFragments ==
    {[id |-> ID_001, title |-> "Alpha"], [id |-> ID_001, title |-> "Beta"],
     [id |-> ID_ARCANA, title |-> "Alpha"], [id |-> ID_BAD, title |-> "Alpha"]}
RerunCards == {[title |-> "Alpha"], [title |-> "Beta"]}

\* the source trees: node files and card files by rank in path order, the
\* first ledger absent or with at most one block, the second ledger and the
\* cosmology file absent, the tokens file absent or an object
Trees ==
    {tr \in [nodes : UNION {[1..n -> {[t |-> "object", v |-> f] : f \in RerunFragments}] : n \in 0..MaxFiles},
             ledgers : {<<first, [exists |-> FALSE, blocks |-> << >>]>> :
                           first \in {[exists |-> FALSE, blocks |-> << >>]}
                                        \cup {[exists |-> TRUE, blocks |-> <<f>>] : f \in RerunFragments}},
             cards : UNION {[1..m -> {[t |-> "object", v |-> c] : c \in RerunCards}] : m \in 0..MaxFiles},
             tokens : {[t |-> "null"], [t |-> "object", v |-> [title |-> "Alpha"]]},
             cosmo : {[t |-> "null"]}] :
        Len(tr.nodes) + Len(tr.ledgers[1].blocks) + Len(tr.cards) <= MaxInputs}

\* a first run of main on some tree, the clock frozen
InitRerun ==
    /\ pc = "nodes"
    /\ compiled = << >> /\ node = << >> /\ seen = << >> /\ error = NoError
    /\ fileIdx = 0 /\ ledgerIdx = 0 /\ blocksLeft = 0 /\ inputs = 0
    /\ cards = << >> /\ cardIdx = 0 /\ card = [t |-> "null"]
    /\ tokens = [t |-> "null"] /\ cosmo_codex = [t |-> "null"]
    /\ dist = << >> /\ exit_code = -1
    /\ now = 0
    /\ data = << >> /\ md_text = << >> /\ snippets = << >>
    /\ tree \in Trees
    /\ listing \in [nodes : Listings(Len(tree.nodes)), cards : Listings(Len(tree.cards))]
    /\ runs = << >>
    /\ CopierIdle

\* the process has ended and main is started again on the same tree: the
\* files under DIST stay, glob.glob may list the directories in another
\* order; the run that ended is kept for comparison
Restart(order) ==
    /\ pc \in {"done", "failed"}
    /\ runs = << >>
    /\ runs' = Append(runs, [listing |-> listing, dist |-> dist,
                             exit_code |-> exit_code, error |-> error])
    /\ listing' = order
    /\ pc' = "nodes"
    /\ compiled' = << >> /\ node' = << >> /\ seen' = << >> /\ error' = NoError
    /\ fileIdx' = 0 /\ ledgerIdx' = 0 /\ blocksLeft' = 0 /\ inputs' = 0
    /\ cards' = << >> /\ cardIdx' = 0 /\ card' = [t |-> "null"]
    /\ tokens' = [t |-> "null"] /\ cosmo_codex' = [t |-> "null"]
    /\ exit_code' = -1
    /\ UNCHANGED <<now, dist, tree, data, md_text, snippets, copier>>

\* the steps of a run, their inputs read from the tree
NextRerun ==
    \/ /\ fileIdx < Len(tree.nodes)
       /\ LoadNodeFile(tree.nodes[sorted(listing.nodes)[fileIdx + 1]], now)
    \/ /\ fileIdx = Len(tree.nodes)
       /\ EndNodeFiles
    \/ /\ ledgerIdx < NumLedgers
       /\ OpenLedger(tree.ledgers[ledgerIdx + 1].exists, Len(tree.ledgers[ledgerIdx + 1].blocks))
    \/ /\ pc = "blocks"
       /\ IngestBlock(tree.ledgers[ledgerIdx].blocks[Len(tree.ledgers[ledgerIdx].blocks) - blocksLeft + 1], now)
    \/ EndLedgers
    \/ /\ cardIdx < Len(tree.cards)
       /\ LoadCard(tree.cards[sorted(listing.cards)[cardIdx + 1]])
    \/ /\ cardIdx = Len(tree.cards)
       /\ LoadBlobs(tree.tokens, tree.cosmo)
    \/ WriteArtifacts(now)
    \/ \E order \in [nodes : Listings(Len(tree.nodes)), cards : Listings(Len(tree.cards))] :
           Restart(order)

SpecRerun == InitRerun /\ [][NextRerun]_vars

\* what a run left behind
Outcome(r) == [dist |-> r.dist, exit_code |-> r.exit_code, error |-> r.error]

RunEnded == pc \in {"done", "failed"}

\* C13: on one source tree, with the clock frozen and one commit id, a run
\* leaves the same documents as the run before it, whatever the order in
\* which the files of the nodes and liber directories were listed.
C13_RunsAgree ==
    RunEnded =>
        \A i \in 1..Len(runs) :
            Outcome(runs[i]) = [dist |-> dist, exit_code |-> exit_code, error |-> error]

\* two runs that were given the node files in opposite orders both archived
\* a variant and wrote the same codex.json
C13_Witness ==
    /\ pc = "done"
    /\ Len(runs) = 1
    /\ runs[1].listing.nodes # listing.nodes
    /\ runs[1].exit_code = 0
    /\ runs[1].dist = dist
    /\ \E i \in 1..Len(dist["codex.json"].nodes) :
           Versions(dist["codex.json"].nodes[i]) # << >>

\* the versions entries of a node list, each named by its node and its place
\* (a node has at most one versions entry per input)
VersionSlots(nodes) ==
    {slot \in (1..Len(nodes)) \X (1..MaxInputs) :
        slot[2] <= Len(Versions(nodes[slot[1]]))}

\* C21: in index.json of a successful run, counts.nodes is the number of
\* nodes in codex.json, counts.cards the number of collected cards and
\* counts.versions_total the number of versions entries of all emitted nodes.
C21_CountsMatchOutputs ==
    pc = "done" =>
        LET nodes == dist["codex.json"].nodes
            counts == dist["index.json"].counts
        IN  /\ counts.nodes = Len(nodes)
            /\ counts.cards = Len(cards)
            /\ counts.versions_total = Cardinality(VersionSlots(nodes))

\* a run ended with one archived variant and one card
C21_Witness ==
    /\ pc = "done"
    /\ dist["index.json"].counts = [nodes |-> 1, cards |-> 1, versions_total |-> 1]
    /\ Len(dist["cards.json"].cards) = 1

\* the place of a source path in the order of collect_nodes: the loose node
\* files by path, then the ledgers in list order
PathRank(path) == IF path[1] = "nodes" THEN path[2] ELSE MaxInputs + path[2]

\* the path from which a record was ingested: its last source entry
IngestedFrom(n) == Sources(n)[Len(Sources(n))].path

\* the sources of every current record are in collection order, and every
\* versions entry was ingested after the first sighting of its node and no
\* earlier than the versions entry before it
CollectionOrderKept ==
    \A k \in Keys(compiled) :
        LET cur == Lookup(compiled, k)
            srcs == Sources(cur)
            vers == Versions(cur)
        IN  /\ \A i, j \in 1..Len(srcs) : i < j => PathRank(srcs[i].path) <= PathRank(srcs[j].path)
            /\ \A j \in 1..Len(vers) : PathRank(srcs[1].path) <= PathRank(IngestedFrom(vers[j]))
            /\ \A i, j \in 1..Len(vers) :
                   i < j => PathRank(IngestedFrom(vers[i])) <= PathRank(IngestedFrom(vers[j]))

\* an id that a loose file brought has a loose file's content as its current
\* record; what a ledger brought for it with another content is in versions
LooseFileStaysCurrent ==
    \A k \in Keys(compiled) :
        LET cur == Lookup(compiled, k)
            held == {cur} \cup {Versions(cur)[j] : j \in 1..Len(Versions(cur))}
        IN  (\E n \in held : \E i \in 1..Len(Sources(n)) : Sources(n)[i].path[1] = "nodes") =>
                /\ Sources(cur)[1].path[1] = "nodes"
                /\ Content(cur) = Content(HistoryOf(k)[1])

\* C22: the loose node files are read one by one in path order before any
\* ledger block, the ledgers in list order; so an id that a loose file and a
\* ledger block bring with different content keeps the loose file's content
\* as current record and has the block's content in versions only.
C22_LooseFilesBeforeLedgers ==
    [][/\ fileIdx' # fileIdx => (pc = "nodes" /\ ledgerIdx = 0 /\ fileIdx' = fileIdx + 1)
       /\ ledgerIdx' # ledgerIdx => (pc = "ledgers" /\ ledgerIdx' = ledgerIdx + 1)
       /\ Ingested =>
              IngestedFrom(node') = IF fileIdx' # fileIdx THEN NodePath(fileIdx') ELSE LedgerPath(ledgerIdx)
       /\ CollectionOrderKept'
       /\ LooseFileStaysCurrent']_vars

\* a loose file and a block of the second ledger brought one id with
\* different content
C22_Witness ==
    \E k \in Keys(compiled) :
        LET cur == Lookup(compiled, k)
        IN  /\ Sources(cur)[1].path = NodePath(1)
            /\ Len(Versions(cur)) = 1
            /\ IngestedFrom(Versions(cur)[1]) = LedgerPath(2)
            /\ Content(Versions(cur)[1]) # Content(cur)

\* the ids of the validated fragments in the order of their first sighting
FirstSighted ==
    LET first[i \in 0..Len(seen)] ==
            IF i = 0 THEN << >>
            ELSE IF \E j \in 1..(i - 1) : seen[j].id = seen[i].id
            THEN first[i - 1]
            ELSE Append(first[i - 1], seen[i].id)
    IN  first[Len(seen)]

KeyOrder(c) == [i \in 1..Len(c) |-> c[i].key]

\* the ids of the compiled mapping, and of the node list once written, are
\* in first-sighting order
InFirstSightingOrder ==
    /\ KeyOrder(compiled) = FirstSighted
    /\ pc = "done" =>
           [i \in 1..Len(dist["codex.json"].nodes) |-> dist["codex.json"].nodes[i].id] = FirstSighted

\* C23: codex.json lists the nodes in the order in which their ids were
\* first sighted, not by id, and a merge into a known id leaves every node
\* at its place.
C23_FirstSightingOrder ==
    [][/\ IsPrefix(KeyOrder(compiled), KeyOrder(compiled'))
       /\ InFirstSightingOrder']_vars

\* the ARCANA id was sighted before C144N-001, then met again, and
\* codex.json lists it first
C23_Witness ==
    /\ pc = "done"
    /\ Len(seen) = 3
    /\ seen[1].id = ID_ARCANA /\ seen[2].id = ID_001 /\ seen[3].id = ID_ARCANA
    /\ dist["codex.json"].nodes[1].id = ID_ARCANA
    /\ dist["codex.json"].nodes[2].id = ID_001

\* the sequences of well-formed blocks and separators that make up md_text
WellFormedPieces ==
    {pieces \in UNION {[1..k -> GoodBlocks \cup Separators] : k \in 0..MaxSegments} :
        Concat(pieces) = md_text}

\* the object a well-formed block holds
ObjectOf(block) ==
    IF block = <<OPEN, "{", "}", FENCE>> THEN << >>
    ELSE IF block = GoodBlock(MemberAlpha) THEN [title |-> "Alpha"]
    ELSE [title |-> "Beta"]

\* the objects of the well-formed blocks among pieces, in order
RECURSIVE ObjectsOf(_)
ObjectsOf(pieces) ==
    IF pieces = << >> THEN << >>
    ELSE (IF Head(pieces) \in GoodBlocks THEN <<ObjectOf(Head(pieces))>> ELSE << >>)
             \o ObjectsOf(Tail(pieces))

\* C24: of a text made of well-formed tagged blocks and of text without a
\* tagged fence, extract_json_blocks returns the objects of the blocks in
\* document order, and a second call on the text returns the same list.
C24_WellFormedBlocksInOrder ==
    [][/\ \A pieces \in WellFormedPieces : snippets' = ObjectsOf(pieces)
       /\ pc = "returned" => snippets' = snippets]_vars

\* two blocks with an untagged block between them, extracted twice
C24_Witness ==
    /\ pc = "returned again"
    /\ md_text = GoodBlock(MemberBeta) \o <<FENCE, LF, "}", LF, FENCE, LF>> \o GoodBlock(MemberAlpha)
    /\ snippets = <<[title |-> "Beta"], [title |-> "Alpha"]>>

\* the documents of cards, tokens and cosmology that a file set holds
BlobsWritten(files) ==
    (IF "cards.json" \in DOMAIN files
     THEN {files["cards.json"].cards[i] : i \in 1..Len(files["cards.json"].cards)} ELSE {})
    \cup {files[name] : name \in {"c99/tokens/perm-style.json", "cosmo_codex.json"} \cap DOMAIN files}

\* C25: cards, tokens and cosmology go out as load_json returned them: a
\* collected card is the loaded value, the written documents are the
\* collected values, and none of them gets a provenance field.
C25_BlobsPassThrough ==
    [][/\ cardIdx' # cardIdx =>
              \/ cards' = cards
              \/ card'.t # "null" /\ cards' = Append(cards, card'.v)
       /\ pc' = "done" =>
              /\ "cards.json" \in DOMAIN dist' => dist'["cards.json"].cards = cards'
              /\ "c99/tokens/perm-style.json" \in DOMAIN dist' =>
                     dist'["c99/tokens/perm-style.json"] = tokens'.v
              /\ "cosmo_codex.json" \in DOMAIN dist' => dist'["cosmo_codex.json"] = cosmo_codex'.v
              /\ \A blob \in BlobsWritten(dist') : "provenance" \notin DOMAIN blob]_vars

\* a run wrote a card, the tokens and the cosmology next to a node that has
\* provenance
C25_Witness ==
    /\ pc = "done"
    /\ {"cards.json", "c99/tokens/perm-style.json", "cosmo_codex.json"} \subseteq DOMAIN dist
    /\ dist["cards.json"].cards = <<[title |-> "Alpha"]>>
    /\ Len(dist["codex.json"].nodes) = 1
    /\ "provenance" \in DOMAIN dist["codex.json"].nodes[1]

(* ------- copy_offline of tools/external/ingest_external_sources.py ------ *)
\* A relative path is a sequence: a file name, followed by one suffix
\* ".provenance.json" for a sidecar.  The source is a directory; a source
\* that is one file is the case of a directory with that file alone.
ProvenanceSuffix == ".provenance.json"

\* target_file.with_suffix(target_file.suffix + ".provenance.json")
Sidecar(name) == Append(name, ProvenanceSuffix)

\* the bytes of a file
Bytes(b) == [bytes |-> b]

\* sha256_bytes(data) of the copier, a value that tells the contents apart
file_sha256(content) == [sha256_of |-> content.bytes]

\* what write_provenance dumps for a file copied from the source path name
ProvenanceDoc(name, content, t) ==
    [source |-> name, type |-> "offline", sha256 |-> file_sha256(content), imported_at |-> t]

SourceNames == {<<"a.txt">>, <<"b.txt">>, <<"a.txt", ProvenanceSuffix>>}
TargetNames == SourceNames \cup {<<"b.txt", ProvenanceSuffix>>}

\* the trees under source, and under target before the first call
SourceTrees == UNION {[names -> {Bytes("x"), Bytes("y")}] : names \in SUBSET SourceNames}
TargetTrees == UNION {[names -> {Bytes("old")}] : names \in SUBSET TargetNames}

InitCopy ==
    /\ pc = "walk"
    /\ src_files \in SourceTrees
    /\ dest_files \in TargetTrees
    /\ written = << >>
    /\ pending = DOMAIN src_files
    /\ dest_before = <<dest_files>>
    /\ node = << >> /\ error = NoError
    /\ Idle
    /\ data = << >> /\ md_text = << >> /\ snippets = << >>
    /\ tree = << >> /\ listing = << >> /\ runs = << >>

\* write_provenance: the sidecar is opened with mode "w"
write_provenance(files, name, content, t) ==
    Put(files, Sidecar(name), ProvenanceDoc(name, content, t))

\* lines 83-92, also 66-71: one file that os.walk yields, in any order
CopyFile(fn) ==
    /\ pc = "walk"
    /\ fn \in pending
    /\ pending' = pending \ {fn}
    /\ IF fn \in DOMAIN dest_files
       THEN UNCHANGED <<dest_files, written>>
       ELSE /\ dest_files' = write_provenance(Put(dest_files, fn, src_files[fn]), fn, src_files[fn], now)
            /\ written' = Append(written, fn)
    /\ UNCHANGED <<pc, src_files, dest_before, node, error, run,
                   data, md_text, snippets, tree, listing, runs>>

\* line 93: return written
ReturnWritten ==
    /\ pc = "walk"
    /\ pending = {}
    /\ pc' = "returned"
    /\ UNCHANGED <<copier, node, error, run, data, md_text, snippets, tree, listing, runs>>

\* copy_offline is called once more with the same source and target
CopyAgain ==
    /\ pc = "returned"
    /\ Len(dest_before) = 1
    /\ dest_before' = Append(dest_before, dest_files)
    /\ written' = << >>
    /\ pending' = DOMAIN src_files
    /\ pc' = "walk"
    /\ UNCHANGED <<src_files, dest_files, node, error, run,
                   data, md_text, snippets, tree, listing, runs>>

NextCopy ==
    \/ \E fn \in SourceNames : CopyFile(fn)
    \/ ReturnWritten
    \/ CopyAgain

SpecCopy == InitCopy /\ [][NextCopy]_vars

\* C26: copy_offline leaves every file that was under target at the call as
\* it was, copied file or sidecar; the new files are the copied files and
\* their sidecars; a second call copies nothing and returns an empty list.
C26_CopyKeepsExistingFiles ==
    LET before == dest_before[Len(dest_before)]
        copied == {written[i] : i \in 1..Len(written)}
    IN  /\ \A name \in DOMAIN before : name \in DOMAIN dest_files /\ dest_files[name] = before[name]
        /\ (DOMAIN dest_files) \ (DOMAIN before) = copied \cup {Sidecar(name) : name \in copied}
        /\ Len(dest_before) = 2 => written = << >>

\* C27: a run stopped by a schema-validation failure has written no
\* document; the files under DIST change only in the step of main that
\* follows the return of collect_nodes.
C27_NoOutputOnAbort ==
    [][/\ dist' # dist => (pc = "main" /\ pc' = "done" /\ error = NoError)
       /\ pc' = "failed" => dist' = << >>]_vars

\* a run that had collected a node was stopped by a bad id in the first
\* ledger and left no file
C27_Witness ==
    /\ pc = "failed"
    /\ error.exc = "ValueError"
    /\ error.source = LedgerPath(1)
    /\ compiled # << >>
    /\ dist = << >>

(* --------- a run over fragments with bookkeeping fields of their own ------ *)
\* fragments of one id: two contents, the first content with a _hash field
\* of its own, and the second with a provenance of its own (a compiled node
\* fed back as a source); and a fragment of another id
AnnotatedFragments ==
    {[id |-> ID_ARCANA, title |-> "Alpha"],
     [id |-> ID_001, title |-> "Alpha"],
     [id |-> ID_001, title |-> "Alpha", _hash |-> 5],
     [id |-> ID_001, title |-> "Beta"],
     [id |-> ID_001, title |-> "Beta",
      provenance |-> [sources |-> <<SourceEntry(LedgerPath(2), 0)>>]]}

\* the steps of a run with these fragments in the node files and ledger
\* blocks, the clock frozen
NextAnnotated ==
    \/ \E f \in AnnotatedFragments : LoadNodeFile([t |-> "object", v |-> f], now)
    \/ EndNodeFiles
    \/ \E exists \in BOOLEAN, n \in 0..MaxInputs : OpenLedger(exists, n)
    \/ \E f \in AnnotatedFragments : IngestBlock(f, now)
    \/ EndLedgers
    \/ \E loaded \in BlobResults : LoadCard(loaded)
    \/ \E tok \in BlobResults, cos \in BlobResults : LoadBlobs(tok, cos)
    \/ WriteArtifacts(now)

SpecAnnotated == Init /\ [][NextAnnotated]_vars

\* C28 as stated: no versions entry has the content of the current record
\* of its node, provenance, versions and _hash set aside.
C28_CurrentContentNeverArchived ==
    \A k \in Keys(compiled) :
        \A j \in 1..Len(Versions(Lookup(compiled, k))) :
            Content(Versions(Lookup(compiled, k))[j]) # Content(Lookup(compiled, k))

\* some fragment ingested for the id k had a _hash field of its own
BroughtOwnHash(k) == \E i \in 1..Len(HistoryOf(k)) : "_hash" \in DOMAIN HistoryOf(k)[i]

\* C28, amended: a versions entry has the content of the current record of
\* its node, provenance, versions and _hash set aside, only when a fragment
\* of that id came with a _hash field of its own; a fragment that nodes_equal
\* finds equal to the current record is never archived.
C28_ContentArchivedOnlyWithOwnHash ==
    \A k \in Keys(compiled) :
        ~BroughtOwnHash(k) =>
            \A j \in 1..Len(Versions(Lookup(compiled, k))) :
                Content(Versions(Lookup(compiled, k))[j]) # Content(Lookup(compiled, k))

\* after a variant was archived, a fragment with the content of the current
\* record came from a ledger and was merged into the sources
C28_Witness ==
    \E k \in Keys(compiled) :
        LET cur == Lookup(compiled, k)
        IN  /\ ~BroughtOwnHash(k)
            /\ Len(Versions(cur)) = 1
            /\ Len(Sources(cur)) = 2
            /\ Sources(cur)[2].path = LedgerPath(1)
            /\ Len(HistoryOf(k)) = 3
            /\ Content(HistoryOf(k)[3]) = Content(cur)

\* the id values that Python takes for false, and the parsed values of a
\* loose file that it takes for false
FalsyIds == {ID_EMPTY, JNum(0), JBool(FALSE), None}
FalsyFiles == {[t |-> "null"], [t |-> "object", v |-> << >>], [t |-> "array", n |-> 0]}
HasFalsyId(f) == "id" \in DOMAIN f /\ f.id \in FalsyIds

\* nothing was validated, ingested or raised, and the run goes on
SkippedQuietly ==
    /\ node' = node /\ seen' = seen /\ compiled' = compiled
    /\ error' = error /\ exit_code' = exit_code /\ dist' = dist
    /\ pc' \in {"nodes", "blocks", "ledgers"}

\* C29: a fragment with a falsy id (empty string, 0, false, null), in a
\* loose file or in a ledger block, and a loose file whose parsed value is
\* falsy are skipped without being validated: the step neither aborts the
\* run nor changes the mapping.
C29_FalsyInputsSkipped ==
    [][/\ \A loaded \in LoadResults, t \in 0..MaxClock :
            (/\ loaded \in FalsyFiles \/ (loaded.t = "object" /\ HasFalsyId(loaded.v))
             /\ LoadNodeFile(loaded, t)) => SkippedQuietly
       /\ \A block \in Fragments, t \in 0..MaxClock :
            (HasFalsyId(block) /\ IngestBlock(block, t)) => SkippedQuietly]_vars

\* after a node was ingested, a loose file and a ledger block were skipped:
\* three inputs were met, one fragment validated
C29_Witness ==
    /\ inputs = 3 /\ fileIdx = 2 /\ ledgerIdx = 1 /\ blocksLeft = 0
    /\ pc = "ledgers"
    /\ Len(seen) = 1 /\ Len(compiled) = 1
    /\ Len(Sources(compiled[1].value)) = 1

\* the file the step reads: a loose node file or the open ledger
StepPath == IF fileIdx' # fileIdx THEN NodePath(fileIdx') ELSE LedgerPath(ledgerIdx)

\* the first source entry the compiler added to the record of the id k: the
\* one after the entries its first-sighted fragment brought along
FirstCompilerEntry(k) ==
    Sources(Lookup(compiled, k))[Len(Sources(HistoryOf(k)[1])) + 1]

\* every entry of the mapping is under its own id and has a source entry
KeyedBySourcedId ==
    \A i \in 1..Len(compiled) :
        /\ compiled[i].key = compiled[i].value.id
        /\ \A j \in 1..Len(compiled) : compiled[j].key = compiled[i].key => j = i
        /\ Len(Sources(compiled[i].value)) > Len(Sources(HistoryOf(compiled[i].key)[1]))

\* C30: every entry of the compiled mapping is stored under its own id and
\* has a non-empty provenance.sources; the first entry the compiler added to
\* it names the file in which the id was first sighted, and stays.
C30_KeyedAndFirstSourceKept ==
    [][/\ KeyedBySourcedId'
       /\ \A k \in Keys(compiled') :
              IF k \in Keys(compiled)
              THEN FirstCompilerEntry(k)' = FirstCompilerEntry(k)
              ELSE FirstCompilerEntry(k)'.path = StepPath]_vars

\* an id first sighted in a loose file with a source entry of its own, then
\* met with the same content in a block of the first ledger: the compiler's
\* first entry is the second of three and names the loose file
C30_Witness ==
    /\ Len(compiled) = 1
    /\ Len(seen) = 2
    /\ Len(Sources(seen[1])) = 1
    /\ Len(Sources(compiled[1].value)) = 3
    /\ Versions(compiled[1].value) = << >>
    /\ FirstCompilerEntry(compiled[1].key).path = NodePath(1)
    /\ Sources(compiled[1].value)[1].path = LedgerPath(2)
    /\ Sources(compiled[1].value)[3].path = LedgerPath(1)

====
